---- MODULE Spec2Model ----
(***************************************************************************)
(* SerialMidi: a MIDI 1.0 codec over a byte-serial port.                   *)
(*                                                                         *)
(* The encoder (NoteON .. Reset) writes messages with running-status       *)
(* elision; the decoder (ReceiveParser) consumes one byte per call and     *)
(* invokes one of five delegates when a message completes.                 *)
(*                                                                         *)
(* Four specifications share the variables:                                *)
(*   SpecTx    the application calls the encoder operations;               *)
(*   SpecRx    a remote device puts bytes into the receive FIFO and the    *)
(*             application polls ReceiveParser;                            *)
(*   SpecLoop  the bytes the encoder writes are carried to the receive     *)
(*             FIFO of a decoder, and the harness logs calls and           *)
(*             delegate invocations since construction;                    *)
(*   SpecWire  as SpecRx, with an observer of the line that keeps the      *)
(*             status byte in force and the data bytes read under it.      *)
(***************************************************************************)
EXTENDS Integers, Sequences, FiniteSets, TLC

VARIABLES
    global_running_status_tx,   \* uint8_t field, serial-midi.h:259
    global_running_status_rx,   \* uint8_t field, serial-midi.h:260
    global_3rd_byte_flag,       \* uint8_t field, serial-midi.h:261
    global_midi_c2,             \* uint8_t field, serial-midi.h:262
    global_midi_c3,             \* uint8_t field, serial-midi.h:263
    global_midi_state,          \* uint8_t field, serial-midi.h:264
    serial_rx,                  \* serial_port: bytes waiting in the receive FIFO
    serial_tx,                  \* serial_port: bytes written by the most recent encoder call
    tx_call,                    \* the most recent encoder call: <<operation, arguments...>>
    rx_read,                    \* what serial_port.read returned in the most recent ReceiveParser call (-1: no call yet)
    delegate_calls,             \* the delegates invoked by the most recent ReceiveParser call
    issued,                     \* SpecLoop: the encoder calls since construction
    heard,                      \* SpecLoop: the delegate invocations since construction
    wire                        \* SpecWire: what the bytes read so far are on the wire (see Observe)

fields == <<global_running_status_tx, global_running_status_rx, global_3rd_byte_flag,
            global_midi_c2, global_midi_c3, global_midi_state>>

vars == <<global_running_status_tx, global_running_status_rx, global_3rd_byte_flag,
          global_midi_c2, global_midi_c3, global_midi_state,
          serial_rx, serial_tx, tx_call, rx_read, delegate_calls, issued, heard, wire>>

(***************************************************************************)
(* Constants of serial-midi.h                                              *)
(***************************************************************************)
CHANNEL_VOICE_MASK == 128       \* 0x80
SYSTEM_TUNE_REQUEST == 246      \* 0xF6
C_NOTE_ON == 144                \* 0x90
C_NOTE_OFF == 128               \* 0x80
C_POLYPHONIC_AFTERTOUCH == 160  \* 0xA0
C_PITCH_WHEEL == 224            \* 0xE0
C_CONTROL_CHANGE == 176         \* 0xB0
C_PROGRAM_CHANGE == 192         \* 0xC0
C_CHANNEL_AFTERTOUCH == 208     \* 0xD0
RT_TIMING_CLOCK == 248          \* 0xF8
RT_START == 250                 \* 0xFA
RT_CONTINUE == 251              \* 0xFB
RT_STOP == 252                  \* 0xFC
RT_ACTIVE_SENSING == 254        \* 0xFE
RT_RESET == 255                 \* 0xFF
CTL_MSB_MODWHEEL == 1           \* 0x01
CTL_LSB_MODWHEEL == 33          \* 0x21
RESET == 0                      \* first enumerator of midi_state_machine

(***************************************************************************)
(* C integer arithmetic                                                    *)
(***************************************************************************)
\* Conversion to uint8_t: the value modulo 2^8.
U8(x) == x % 256

\* Conversion to uint16_t: the value modulo 2^16.
U16(x) == x % 65536

\* a & b on non-negative ints.
RECURSIVE BitAnd(_, _)
BitAnd(a, b) ==
    IF a = 0 \/ b = 0 THEN 0
    ELSE (a % 2) * (b % 2) + 2 * BitAnd(a \div 2, b \div 2)

\* a | b on non-negative ints.
RECURSIVE BitOr(_, _)
BitOr(a, b) ==
    IF a = 0 THEN b
    ELSE IF b = 0 THEN a
    ELSE (IF a % 2 = 1 \/ b % 2 = 1 THEN 1 ELSE 0) + 2 * BitOr(a \div 2, b \div 2)

\* ~(mask) & val for a non-negative int val: the bits of mask cleared in val.
AndNot(mask, val) == val - BitAnd(val, mask)

\* val >> n for a non-negative int val.
ShiftRight(val, n) == val \div (2 ^ n)

(***************************************************************************)
(* Encoder.  Each operation is given the transmit running status and its   *)
(* arguments and yields the new running status (tx) and the bytes handed   *)
(* to serial_port.write, in order (out).                                   *)
(***************************************************************************)
\* NoteON with the running status left stale after a full write (line 69 dropped).
NoteON_StaleStatus(tx, channel, key, velocity) ==
    LET buf == <<U8(BitOr(C_NOTE_ON, channel)), key, velocity>>
    IN  IF tx = buf[1]
        THEN [tx |-> tx, out |-> SubSeq(buf, 2, 3)]
        ELSE [tx |-> tx, out |-> buf]

NoteON(tx, channel, key, velocity) ==
    LET buf == <<U8(BitOr(C_NOTE_ON, channel)), key, velocity>>
    IN  IF tx = buf[1]
        THEN [tx |-> tx, out |-> SubSeq(buf, 2, 3)]
        ELSE [tx |-> buf[1], out |-> buf]

NoteOFF(tx, channel, key, velocity) ==
    LET buf == <<U8(BitOr(C_NOTE_OFF, channel)), key, velocity>>
    IN  IF tx = buf[1]
        THEN [tx |-> tx, out |-> SubSeq(buf, 2, 3)]
        ELSE [tx |-> buf[1], out |-> buf]

ControlChange(tx, channel, controller, val) ==
    LET buf == <<U8(BitOr(C_CONTROL_CHANGE, channel)), controller, val>>
    IN  IF tx = buf[1]
        THEN [tx |-> tx, out |-> SubSeq(buf, 2, 3)]
        ELSE [tx |-> buf[1], out |-> buf]

ChannelAfterTouch(tx, channel, val) ==
    LET buf == <<U8(BitOr(C_CHANNEL_AFTERTOUCH, channel)), val>>
    IN  IF tx = buf[1]
        THEN [tx |-> tx, out |-> SubSeq(buf, 2, 2)]
        ELSE [tx |-> buf[1], out |-> buf]

\* ModWheel(uint8_t, uint16_t) with the two ControlChange calls exchanged.
ModWheel_u16_MsbFirst(tx, channel, val) ==
    LET msb == ControlChange(tx, channel, CTL_MSB_MODWHEEL,
                             U8(AndNot(CHANNEL_VOICE_MASK, ShiftRight(val, 7))))
        lsb == ControlChange(msb.tx, channel, CTL_LSB_MODWHEEL,
                             U8(AndNot(CHANNEL_VOICE_MASK, val)))
    IN  [tx |-> lsb.tx, out |-> msb.out \o lsb.out]

\* ModWheel(uint8_t channel, uint16_t val): two ControlChange calls, LSB first.
ModWheel_u16(tx, channel, val) ==
    LET lsb == ControlChange(tx, channel, CTL_LSB_MODWHEEL,
                             U8(AndNot(CHANNEL_VOICE_MASK, val)))
        msb == ControlChange(lsb.tx, channel, CTL_MSB_MODWHEEL,
                             U8(AndNot(CHANNEL_VOICE_MASK, ShiftRight(val, 7))))
    IN  [tx |-> msb.tx, out |-> lsb.out \o msb.out]

\* ModWheel(uint8_t channel, uint8_t val): the MSB only.
ModWheel_u8(tx, channel, val) ==
    ControlChange(tx, channel, CTL_MSB_MODWHEEL, U8(AndNot(CHANNEL_VOICE_MASK, val)))

\* ModWheel(uint8_t, int) resolved to the uint16_t overload.
ModWheel_int_AsWord(tx, channel, val) == ModWheel_u16(tx, channel, U16(val))

\* ModWheel(uint8_t channel, int val): (uint8_t)val, then the uint8_t overload.
ModWheel_int(tx, channel, val) == ModWheel_u8(tx, channel, U8(val))

\* PitchWheel(uint8_t channel, uint16_t val)
PitchWheel_u16(tx, channel, val) ==
    LET buf == <<U8(BitOr(C_PITCH_WHEEL, channel)),
                 U8(AndNot(CHANNEL_VOICE_MASK, val)),
                 U8(AndNot(CHANNEL_VOICE_MASK, ShiftRight(val, 7)))>>
    IN  IF tx = buf[1]
        THEN [tx |-> tx, out |-> SubSeq(buf, 2, 3)]
        ELSE [tx |-> buf[1], out |-> buf]

\* PitchWheel(uint8_t, int16_t) with the re-centring by 0x2000 left out.
PitchWheel_i16_NotCentred(tx, channel, val) ==
    LET pitch == U16(val)
    IN  PitchWheel_u16(tx, channel, pitch)

\* PitchWheel(uint8_t channel, int16_t val): re-centred by 0x2000.
PitchWheel_i16(tx, channel, val) ==
    LET pitch == U16(val + 8192)
    IN  PitchWheel_u16(tx, channel, pitch)

\* The six system-realtime sends: one byte, the running status not touched.
TimingClock(tx) == [tx |-> tx, out |-> <<RT_TIMING_CLOCK>>]

Start(tx) == [tx |-> tx, out |-> <<RT_START>>]

Continue(tx) == [tx |-> tx, out |-> <<RT_CONTINUE>>]

Stop(tx) == [tx |-> tx, out |-> <<RT_STOP>>]

Active_Sensing(tx) == [tx |-> tx, out |-> <<RT_ACTIVE_SENSING>>]

\* Reset taking the byte it sends for the new running status.
Reset_TakesStatus(tx) == [tx |-> RT_RESET, out |-> <<RT_RESET>>]

Reset(tx) == [tx |-> tx, out |-> <<RT_RESET>>]

\* The public encoder interface: the call <<operation, arguments...>> made
\* on an object whose transmit running status is tx.
Encode(tx, call) ==
    CASE call[1] = "NoteON"            -> NoteON(tx, call[2], call[3], call[4])
      [] call[1] = "NoteOFF"           -> NoteOFF(tx, call[2], call[3], call[4])
      [] call[1] = "ControlChange"     -> ControlChange(tx, call[2], call[3], call[4])
      [] call[1] = "ChannelAfterTouch" -> ChannelAfterTouch(tx, call[2], call[3])
      [] call[1] = "ModWheel_u16"      -> ModWheel_u16(tx, call[2], call[3])
      [] call[1] = "ModWheel_u8"       -> ModWheel_u8(tx, call[2], call[3])
      [] call[1] = "ModWheel_int"      -> ModWheel_int(tx, call[2], call[3])
      [] call[1] = "PitchWheel_u16"    -> PitchWheel_u16(tx, call[2], call[3])
      [] call[1] = "PitchWheel_i16"    -> PitchWheel_i16(tx, call[2], call[3])
      [] call[1] = "TimingClock"       -> TimingClock(tx)
      [] call[1] = "Start"             -> Start(tx)
      [] call[1] = "Continue"          -> Continue(tx)
      [] call[1] = "Stop"              -> Stop(tx)
      [] call[1] = "Active_Sensing"    -> Active_Sensing(tx)
      [] call[1] = "Reset"             -> Reset(tx)

(***************************************************************************)
(* Argument values the application passes.                                 *)
(***************************************************************************)
\* channel arguments (enum channel, CH1 .. CH16)
Channels == {0, 1, 15}

\* uint8_t data arguments, in and out of the 7-bit range
ByteArgs == {0, 60, 127, 128, 255}

\* uint16_t arguments, in and out of the 14-bit range
WordArgs == {0, 127, 128, 8192, 16383, 16384, 65535}

\* int16_t arguments, in and out of -8192 .. 8191
ShortArgs == {-32768, -8193, -8192, -1, 0, 1, 8191, 8192, 32767}

\* int arguments
IntArgs == {-1, 0, 64, 127, 128, 300}

(***************************************************************************)
(* Construction.  The constructor assigns every state field except         *)
(* global_running_status_tx, which is left uninitialized: its value is     *)
(* whatever the object's storage held.                                     *)
(***************************************************************************)
Init ==
    /\ global_running_status_tx \in 0..255
    /\ global_running_status_rx = 0
    /\ global_3rd_byte_flag = 0
    /\ global_midi_c2 = 0
    /\ global_midi_c3 = 0
    /\ global_midi_state = RESET
    /\ serial_rx = <<>>
    /\ serial_tx = <<>>
    /\ tx_call = <<"SerialMidi">>
    /\ rx_read = -1
    /\ delegate_calls = <<>>
    /\ issued = <<>>
    /\ heard = <<>>
    /\ wire = [status |-> 0, n |-> 0, prev |-> -1]

(***************************************************************************)
(* SpecTx: the application calls the encoder.                              *)
(***************************************************************************)
\* What an encoder call leaves alone.
rxside == <<global_running_status_rx, global_3rd_byte_flag, global_midi_c2,
            global_midi_c3, global_midi_state, serial_rx, rx_read, delegate_calls>>

\* One encoder call, from entry to return.
Send(call) ==
    LET r == Encode(global_running_status_tx, call)
    IN  /\ global_running_status_tx' = r.tx
        /\ serial_tx' = r.out
        /\ tx_call' = call

CallNoteON ==
    \E ch \in Channels, key \in ByteArgs, velocity \in ByteArgs :
        Send(<<"NoteON", ch, key, velocity>>) /\ UNCHANGED <<rxside, issued, heard, wire>>

CallNoteOFF ==
    \E ch \in Channels, key \in ByteArgs, velocity \in ByteArgs :
        Send(<<"NoteOFF", ch, key, velocity>>) /\ UNCHANGED <<rxside, issued, heard, wire>>

CallControlChange ==
    \E ch \in Channels, controller \in ByteArgs, val \in ByteArgs :
        Send(<<"ControlChange", ch, controller, val>>) /\ UNCHANGED <<rxside, issued, heard, wire>>

CallChannelAfterTouch ==
    \E ch \in Channels, val \in ByteArgs :
        Send(<<"ChannelAfterTouch", ch, val>>) /\ UNCHANGED <<rxside, issued, heard, wire>>

CallModWheel_u16 ==
    \E ch \in Channels, val \in WordArgs :
        Send(<<"ModWheel_u16", ch, val>>) /\ UNCHANGED <<rxside, issued, heard, wire>>

CallModWheel_u8 ==
    \E ch \in Channels, val \in ByteArgs :
        Send(<<"ModWheel_u8", ch, val>>) /\ UNCHANGED <<rxside, issued, heard, wire>>

CallModWheel_int ==
    \E ch \in Channels, val \in IntArgs :
        Send(<<"ModWheel_int", ch, val>>) /\ UNCHANGED <<rxside, issued, heard, wire>>

CallPitchWheel_u16 ==
    \E ch \in Channels, val \in WordArgs :
        Send(<<"PitchWheel_u16", ch, val>>) /\ UNCHANGED <<rxside, issued, heard, wire>>

CallPitchWheel_i16 ==
    \E ch \in Channels, val \in ShortArgs :
        Send(<<"PitchWheel_i16", ch, val>>) /\ UNCHANGED <<rxside, issued, heard, wire>>

CallTimingClock == Send(<<"TimingClock">>) /\ UNCHANGED <<rxside, issued, heard, wire>>

CallStart == Send(<<"Start">>) /\ UNCHANGED <<rxside, issued, heard, wire>>

CallContinue == Send(<<"Continue">>) /\ UNCHANGED <<rxside, issued, heard, wire>>

CallStop == Send(<<"Stop">>) /\ UNCHANGED <<rxside, issued, heard, wire>>

CallActive_Sensing == Send(<<"Active_Sensing">>) /\ UNCHANGED <<rxside, issued, heard, wire>>

CallReset == Send(<<"Reset">>) /\ UNCHANGED <<rxside, issued, heard, wire>>

NextTx ==
    \/ CallNoteON
    \/ CallNoteOFF
    \/ CallControlChange
    \/ CallChannelAfterTouch
    \/ CallModWheel_u16
    \/ CallModWheel_u8
    \/ CallModWheel_int
    \/ CallPitchWheel_u16
    \/ CallPitchWheel_i16
    \/ CallTimingClock
    \/ CallStart
    \/ CallContinue
    \/ CallStop
    \/ CallActive_Sensing
    \/ CallReset

SpecTx == Init /\ [][NextTx]_vars

(***************************************************************************)
(* Decoder.  ReceiveParser classifies the byte c it read.  Each branch is  *)
(* given the receive state st = [rx, flag, c2, c3] (global_running_        *)
(* status_rx, global_3rd_byte_flag, global_midi_c2, global_midi_c3) and    *)
(* yields the new state and the delegates it invoked, in order (calls).    *)
(***************************************************************************)
\* The realtime branch clearing the pending-byte flag, as the status branch does.
ParseRealtime_ClearsFlag(st, c) ==
    [rx |-> st.rx, flag |-> 0, c2 |-> st.c2, c3 |-> st.c3,
     calls |-> << <<"realtime_handler_delegate", c>> >>]

\* The realtime branch storing the byte as a first data byte.
ParseRealtime_StoresByte(st, c) ==
    [rx |-> st.rx, flag |-> st.flag, c2 |-> c, c3 |-> st.c3,
     calls |-> << <<"realtime_handler_delegate", c>> >>]

\* c >= 0xF8: the realtime delegate, nothing stored.
ParseRealtime(st, c) ==
    [rx |-> st.rx, flag |-> st.flag, c2 |-> st.c2, c3 |-> st.c3,
     calls |-> << <<"realtime_handler_delegate", c>> >>]

\* The status branch without `global_3rd_byte_flag = 0` (line 275 dropped).
ParseStatus_KeepsFlag(st, c) ==
    [rx |-> c, flag |-> st.flag,
     c2 |-> IF c = SYSTEM_TUNE_REQUEST THEN c ELSE st.c2,
     c3 |-> st.c3, calls |-> <<>>]

\* The status branch storing the command family only.
ParseStatus_ChannelMasked(st, c) ==
    [rx |-> BitAnd(c, 240), flag |-> 0,
     c2 |-> IF c = SYSTEM_TUNE_REQUEST THEN c ELSE st.c2,
     c3 |-> st.c3, calls |-> <<>>]

\* 0x80 <= c < 0xF8: the new running status; a tune request is also stored.
ParseStatus(st, c) ==
    [rx |-> c, flag |-> 0,
     c2 |-> IF c = SYSTEM_TUNE_REQUEST THEN c ELSE st.c2,
     c3 |-> st.c3, calls |-> <<>>]

\* The second-data-byte branch without the velocity-zero test (lines 291-296 dropped).
ParseSecondData_NoZeroTest(st, c) ==
    LET rx == BitAnd(st.rx, 240)
        calls ==
            IF rx = C_NOTE_ON
            THEN << <<"midi_note_on_delegate", st.c2, c>> >>
            ELSE IF rx = C_NOTE_OFF
            THEN << <<"midi_note_off_delegate", st.c2, c>> >>
            ELSE IF rx = C_PITCH_WHEEL
            THEN << <<"midi_pitchwheel_delegate", st.c2, c>> >>
            ELSE IF rx = C_PROGRAM_CHANGE THEN <<>>
            ELSE IF rx = C_POLYPHONIC_AFTERTOUCH THEN <<>>
            ELSE IF rx = C_CHANNEL_AFTERTOUCH THEN <<>>
            ELSE IF rx = C_CONTROL_CHANGE
            THEN << <<"midi_control_change_delegate", st.c2, c>> >>
            ELSE <<>>
    IN  [rx |-> rx, flag |-> 0, c2 |-> st.c2, c3 |-> c, calls |-> calls]

\* The second-data-byte branch passing the pitch-wheel bytes MSB first.
ParseSecondData_PitchSwapped(st, c) ==
    LET rx == BitAnd(st.rx, 240)
        calls ==
            IF rx = C_NOTE_ON
            THEN IF c = 0
                 THEN << <<"midi_note_off_delegate", st.c2, c>> >>
                 ELSE << <<"midi_note_on_delegate", st.c2, c>> >>
            ELSE IF rx = C_NOTE_OFF
            THEN << <<"midi_note_off_delegate", st.c2, c>> >>
            ELSE IF rx = C_PITCH_WHEEL
            THEN << <<"midi_pitchwheel_delegate", c, st.c2>> >>
            ELSE IF rx = C_PROGRAM_CHANGE THEN <<>>
            ELSE IF rx = C_POLYPHONIC_AFTERTOUCH THEN <<>>
            ELSE IF rx = C_CHANNEL_AFTERTOUCH THEN <<>>
            ELSE IF rx = C_CONTROL_CHANGE
            THEN << <<"midi_control_change_delegate", st.c2, c>> >>
            ELSE <<>>
    IN  [rx |-> rx, flag |-> 0, c2 |-> st.c2, c3 |-> c, calls |-> calls]

\* A data byte with global_3rd_byte_flag == 1: the message is complete.
ParseSecondData(st, c) ==
    LET rx == BitAnd(st.rx, 240)
        calls ==
            IF rx = C_NOTE_ON
            THEN IF c = 0
                 THEN << <<"midi_note_off_delegate", st.c2, c>> >>
                 ELSE << <<"midi_note_on_delegate", st.c2, c>> >>
            ELSE IF rx = C_NOTE_OFF
            THEN << <<"midi_note_off_delegate", st.c2, c>> >>
            ELSE IF rx = C_PITCH_WHEEL
            THEN << <<"midi_pitchwheel_delegate", st.c2, c>> >>
            ELSE IF rx = C_PROGRAM_CHANGE THEN <<>>
            ELSE IF rx = C_POLYPHONIC_AFTERTOUCH THEN <<>>
            ELSE IF rx = C_CHANNEL_AFTERTOUCH THEN <<>>
            ELSE IF rx = C_CONTROL_CHANGE
            THEN << <<"midi_control_change_delegate", st.c2, c>> >>
            ELSE <<>>
    IN  [rx |-> rx, flag |-> 0, c2 |-> st.c2, c3 |-> c, calls |-> calls]

\* The first-data-byte branch taking every channel-voice family for a
\* three-byte one (the 0xC0..0xDF test dropped).
ParseFirstData_AllTwoData(st, c) ==
    IF st.rx = 0
    THEN [rx |-> st.rx, flag |-> st.flag, c2 |-> st.c2, c3 |-> st.c3, calls |-> <<>>]
    ELSE IF st.rx < 240
    THEN [rx |-> st.rx, flag |-> 1, c2 |-> c, c3 |-> st.c3, calls |-> <<>>]
    ELSE IF st.rx = 242
    THEN [rx |-> 0, flag |-> 1, c2 |-> c, c3 |-> st.c3, calls |-> <<>>]
    ELSE IF st.rx = 243 \/ st.rx = 243
    THEN [rx |-> 0, flag |-> st.flag, c2 |-> c, c3 |-> st.c3, calls |-> <<>>]
    ELSE [rx |-> 0, flag |-> st.flag, c2 |-> st.c2, c3 |-> st.c3, calls |-> <<>>]

\* The first-data-byte branch storing a byte that has no running status.
ParseFirstData_ZeroStores(st, c) ==
    IF st.rx = 0
    THEN [rx |-> st.rx, flag |-> st.flag, c2 |-> c, c3 |-> st.c3, calls |-> <<>>]
    ELSE IF st.rx < 192
    THEN [rx |-> st.rx, flag |-> 1, c2 |-> c, c3 |-> st.c3, calls |-> <<>>]
    ELSE IF st.rx < 224
    THEN [rx |-> st.rx, flag |-> st.flag, c2 |-> c, c3 |-> st.c3, calls |-> <<>>]
    ELSE IF st.rx < 240
    THEN [rx |-> st.rx, flag |-> 1, c2 |-> c, c3 |-> st.c3, calls |-> <<>>]
    ELSE IF st.rx = 242
    THEN [rx |-> 0, flag |-> 1, c2 |-> c, c3 |-> st.c3, calls |-> <<>>]
    ELSE IF st.rx = 243 \/ st.rx = 243
    THEN [rx |-> 0, flag |-> st.flag, c2 |-> c, c3 |-> st.c3, calls |-> <<>>]
    ELSE [rx |-> 0, flag |-> st.flag, c2 |-> st.c2, c3 |-> st.c3, calls |-> <<>>]

\* The first-data-byte branch leaving the running status 0xF2 in place.
ParseFirstData_SongPositionKeepsStatus(st, c) ==
    IF st.rx = 0
    THEN [rx |-> st.rx, flag |-> st.flag, c2 |-> st.c2, c3 |-> st.c3, calls |-> <<>>]
    ELSE IF st.rx < 192
    THEN [rx |-> st.rx, flag |-> 1, c2 |-> c, c3 |-> st.c3, calls |-> <<>>]
    ELSE IF st.rx < 224
    THEN [rx |-> st.rx, flag |-> st.flag, c2 |-> c, c3 |-> st.c3, calls |-> <<>>]
    ELSE IF st.rx < 240
    THEN [rx |-> st.rx, flag |-> 1, c2 |-> c, c3 |-> st.c3, calls |-> <<>>]
    ELSE IF st.rx = 242
    THEN [rx |-> st.rx, flag |-> 1, c2 |-> c, c3 |-> st.c3, calls |-> <<>>]
    ELSE IF st.rx = 243 \/ st.rx = 243
    THEN [rx |-> 0, flag |-> st.flag, c2 |-> c, c3 |-> st.c3, calls |-> <<>>]
    ELSE [rx |-> 0, flag |-> st.flag, c2 |-> st.c2, c3 |-> st.c3, calls |-> <<>>]

\* A data byte with global_3rd_byte_flag != 1.
ParseFirstData(st, c) ==
    IF st.rx = 0
    THEN [rx |-> st.rx, flag |-> st.flag, c2 |-> st.c2, c3 |-> st.c3, calls |-> <<>>]
    ELSE IF st.rx < 192
    THEN [rx |-> st.rx, flag |-> 1, c2 |-> c, c3 |-> st.c3, calls |-> <<>>]
    ELSE IF st.rx < 224
    THEN [rx |-> st.rx, flag |-> st.flag, c2 |-> c, c3 |-> st.c3, calls |-> <<>>]
    ELSE IF st.rx < 240
    THEN [rx |-> st.rx, flag |-> 1, c2 |-> c, c3 |-> st.c3, calls |-> <<>>]
    ELSE IF st.rx = 242
    THEN [rx |-> 0, flag |-> 1, c2 |-> c, c3 |-> st.c3, calls |-> <<>>]
    ELSE IF st.rx = 243 \/ st.rx = 243
    THEN [rx |-> 0, flag |-> st.flag, c2 |-> c, c3 |-> st.c3, calls |-> <<>>]
    ELSE [rx |-> 0, flag |-> st.flag, c2 |-> st.c2, c3 |-> st.c3, calls |-> <<>>]

\* The body of ReceiveParser without the realtime test (c >= 0xF8): a
\* realtime byte is taken for a status byte.
Parse_RealtimeAsStatus(st, c) ==
    IF BitAnd(c, CHANNEL_VOICE_MASK) # 0
    THEN ParseStatus(st, c)
    ELSE IF st.flag = 1 THEN ParseSecondData(st, c) ELSE ParseFirstData(st, c)

\* The body of ReceiveParser forgetting the running status once a message
\* is complete.
Parse_NoRunningStatus(st, c) ==
    IF BitAnd(c, CHANNEL_VOICE_MASK) # 0
    THEN IF c >= 248 THEN ParseRealtime(st, c) ELSE ParseStatus(st, c)
    ELSE IF st.flag = 1
         THEN [ParseSecondData(st, c) EXCEPT !.rx = 0]
         ELSE ParseFirstData(st, c)

\* The body of ReceiveParser after a byte c was read.
Parse(st, c) ==
    IF BitAnd(c, CHANNEL_VOICE_MASK) # 0
    THEN IF c >= 248 THEN ParseRealtime(st, c) ELSE ParseStatus(st, c)
    ELSE IF st.flag = 1 THEN ParseSecondData(st, c) ELSE ParseFirstData(st, c)

\* ReceiveParser called once for each byte of a stream, from receive state
\* st: the delegates invoked by each call, in order.
RECURSIVE Feed(_, _)
Feed(st, bytes) ==
    IF bytes = <<>> THEN <<>>
    ELSE LET r == Parse(st, Head(bytes))
         IN  <<r.calls>> \o
             Feed([rx |-> r.rx, flag |-> r.flag, c2 |-> r.c2, c3 |-> r.c3], Tail(bytes))

\* The receive state of the object.
RxState ==
    [rx |-> global_running_status_rx, flag |-> global_3rd_byte_flag,
     c2 |-> global_midi_c2, c3 |-> global_midi_c3]

\* ReceiveParser with the return value of serial_port.read ignored: with no
\* byte read, the local c is parsed as it stands (here 0).
ReceiveParserCall_ReadUnchecked ==
    LET c == IF serial_rx = <<>> THEN 0 ELSE Head(serial_rx)
        r == Parse(RxState, c)
    IN  /\ rx_read' = IF serial_rx = <<>> THEN 0 ELSE 1
        /\ serial_rx' = IF serial_rx = <<>> THEN serial_rx ELSE Tail(serial_rx)
        /\ global_running_status_rx' = r.rx
        /\ global_3rd_byte_flag' = r.flag
        /\ global_midi_c2' = r.c2
        /\ global_midi_c3' = r.c3
        /\ delegate_calls' = r.calls

\* One ReceiveParser call, from entry to return: serial_port.read takes the
\* byte at the head of the FIFO, or returns 0 when there is none.
ReceiveParserCall ==
    IF serial_rx = <<>>
    THEN /\ rx_read' = 0
         /\ delegate_calls' = <<>>
         /\ UNCHANGED <<serial_rx, global_running_status_rx, global_3rd_byte_flag,
                        global_midi_c2, global_midi_c3>>
    ELSE LET r == Parse(RxState, Head(serial_rx))
         IN  /\ rx_read' = 1
             /\ serial_rx' = Tail(serial_rx)
             /\ global_running_status_rx' = r.rx
             /\ global_3rd_byte_flag' = r.flag
             /\ global_midi_c2' = r.c2
             /\ global_midi_c3' = r.c3
             /\ delegate_calls' = r.calls

(***************************************************************************)
(* SpecRx: a remote device sends bytes, the application polls.             *)
(***************************************************************************)
\* The most bytes held in the receive FIFO.
MaxFifo == 1

\* Channel nibbles of the status bytes on the wire.
WireChannels == {0, 5}

\* Bytes the remote device sends: channel-voice status bytes, system-common
\* status bytes, realtime bytes and data bytes.
WireBytes ==
    {C_NOTE_OFF + ch : ch \in WireChannels}
    \cup {C_NOTE_ON + ch : ch \in WireChannels}
    \cup {C_CONTROL_CHANGE + ch : ch \in WireChannels}
    \cup {C_PITCH_WHEEL + ch : ch \in WireChannels}
    \cup {C_POLYPHONIC_AFTERTOUCH, C_PROGRAM_CHANGE, C_CHANNEL_AFTERTOUCH}
    \cup {240, 242, 243, SYSTEM_TUNE_REQUEST}
    \cup {RT_TIMING_CLOCK, RT_RESET}
    \cup {0, 60}

\* The decoder never reads global_running_status_tx: SpecRx starts from two
\* of the values the uninitialized field can hold.
InitRx == Init /\ global_running_status_tx \in {0, C_NOTE_ON}

\* What a decoder step leaves alone.
txside == <<global_running_status_tx, serial_tx, tx_call>>

\* The receive interrupt puts a byte from the line into the FIFO.
Arrive ==
    \E c \in WireBytes :
        /\ Len(serial_rx) < MaxFifo
        /\ serial_rx' = Append(serial_rx, c)
        /\ UNCHANGED <<fields, txside, rx_read, delegate_calls, issued, heard, wire>>

ReceiveParser ==
    ReceiveParserCall /\ UNCHANGED <<txside, global_midi_state, issued, heard, wire>>

NextRx ==
    \/ Arrive
    \/ ReceiveParser

SpecRx == InitRx /\ [][NextRx]_vars

(***************************************************************************)
(* SpecLoop: the transmit line of an encoder is wired to the receive line  *)
(* of a decoder, both newly constructed.  The harness records the encoder  *)
(* calls (issued) and the delegate invocations (heard).                    *)
(***************************************************************************)
\* The most encoder calls in one run.
MaxSends == 2

\* The encoder calls the harness makes.
LoopCalls ==
    {<<"NoteON", 0, 60, 100>>, <<"NoteON", 0, 62, 90>>, <<"NoteON", 0, 60, 0>>,
     <<"NoteON", 1, 60, 100>>, <<"NoteOFF", 0, 60, 64>>,
     <<"ControlChange", 0, 7, 127>>, <<"PitchWheel_u16", 0, 8192>>,
     <<"ChannelAfterTouch", 0, 64>>, <<"TimingClock">>}

\* An encoder call; the bytes it writes reach the decoder's receive FIFO.
LoopSend ==
    \E call \in LoopCalls :
        /\ Len(issued) < MaxSends
        /\ Send(call)
        /\ serial_rx' = serial_rx \o serial_tx'
        /\ issued' = Append(issued, call)
        /\ UNCHANGED <<global_running_status_rx, global_3rd_byte_flag, global_midi_c2,
                       global_midi_c3, global_midi_state, rx_read, delegate_calls, heard, wire>>

\* A ReceiveParser call; the delegates record their invocation.
LoopReceive ==
    /\ ReceiveParserCall
    /\ heard' = heard \o delegate_calls'
    /\ UNCHANGED <<txside, global_midi_state, issued, wire>>

NextLoop ==
    \/ LoopSend
    \/ LoopReceive

SpecLoop == Init /\ [][NextLoop]_vars

(***************************************************************************)
(* SpecWire: a remote device sends bytes, the application polls, and an    *)
(* observer follows the bytes serial_port.read hands to ReceiveParser.     *)
(* The observer reads the line as MIDI 1.0 defines it, with no knowledge   *)
(* of the receive fields: wire.status is the most recent status byte below *)
(* 0xF8 (0: none yet), wire.n counts the data bytes read since (1, 2, then *)
(* 3 and 4 for every later odd and even count), wire.prev is the most      *)
(* recent data byte read since (-1: none).  Realtime bytes change nothing. *)
(***************************************************************************)
Observe(w, c) ==
    IF c >= RT_TIMING_CLOCK THEN w
    ELSE IF c >= CHANNEL_VOICE_MASK THEN [status |-> c, n |-> 0, prev |-> -1]
    ELSE [status |-> w.status, n |-> IF w.n = 4 THEN 3 ELSE w.n + 1, prev |-> c]

\* The receive interrupt puts a byte from the line into the FIFO; the
\* application polls often enough to have emptied it first.
WireArrive ==
    \E c \in WireBytes :
        /\ serial_rx = <<>>
        /\ serial_rx' = <<c>>
        /\ UNCHANGED <<fields, txside, rx_read, delegate_calls, issued, heard, wire>>

\* A ReceiveParser call; the observer sees the byte it read, if any.
WireReceive ==
    /\ ReceiveParserCall
    /\ wire' = IF serial_rx = <<>> THEN wire ELSE Observe(wire, Head(serial_rx))
    /\ UNCHANGED <<txside, global_midi_state, issued, heard>>

NextWire ==
    \/ WireArrive
    \/ WireReceive

SpecWire == InitRx /\ [][NextWire]_vars

(***************************************************************************)
(* Properties of the encoder (SpecTx).  Every step of SpecTx is one        *)
(* encoder call: tx_call' is the call, the unprimed variables are the      *)
(* object at entry, the primed ones the object and the wire at return.     *)
(***************************************************************************)
ChannelVoiceOps ==
    {"NoteON", "NoteOFF", "ControlChange", "ChannelAfterTouch",
     "PitchWheel_u16", "PitchWheel_i16"}

ModWheelOps == {"ModWheel_u16", "ModWheel_u8", "ModWheel_int"}

RealtimeOps == {"TimingClock", "Start", "Continue", "Stop", "Active_Sensing", "Reset"}

\* The command family of a channel-voice operation.
FamilyOf(op) ==
    CASE op = "NoteON"            -> C_NOTE_ON
      [] op = "NoteOFF"           -> C_NOTE_OFF
      [] op \in {"ControlChange"} \cup ModWheelOps -> C_CONTROL_CHANGE
      [] op = "ChannelAfterTouch" -> C_CHANNEL_AFTERTOUCH
      [] op \in {"PitchWheel_u16", "PitchWheel_i16"} -> C_PITCH_WHEEL

\* The number of data bytes an operation puts on the wire.
DataCount(op) ==
    CASE op = "ChannelAfterTouch" -> 1
      [] op = "ModWheel_u16"      -> 4
      [] OTHER                    -> 2

\* The byte a realtime operation sends.
RealtimeByte(op) ==
    CASE op = "TimingClock"    -> RT_TIMING_CLOCK
      [] op = "Start"          -> RT_START
      [] op = "Continue"       -> RT_CONTINUE
      [] op = "Stop"           -> RT_STOP
      [] op = "Active_Sensing" -> RT_ACTIVE_SENSING
      [] op = "Reset"          -> RT_RESET

\* The status byte of a channel-voice call with a channel in 0..15.
StatusOf(call) == FamilyOf(call[1]) + call[2]

\* The data bytes among the bytes `out` written by operation op.
DataBytesOf(op, out) == SubSeq(out, Len(out) - DataCount(op) + 1, Len(out))

\* C1: in any sequence of encoder calls, a channel-voice send writes its
\* status byte (family | channel) if and only if that byte differs from the
\* transmit running status at the time of the call; when it is equal only the
\* data bytes are written; after the call the running status is that byte.
C1_RunningStatusElision ==
    [][ tx_call'[1] \in ChannelVoiceOps =>
          LET st == StatusOf(tx_call')
              n  == DataCount(tx_call'[1])
          IN  /\ (global_running_status_tx # st) <=>
                     (Len(serial_tx') = n + 1 /\ serial_tx'[1] = st)
              /\ (global_running_status_tx = st) <=> (Len(serial_tx') = n)
              /\ global_running_status_tx' = st
      ]_vars

\* C1 witness: a NoteON whose status byte was elided.
C1_Witness ==
    /\ tx_call[1] = "NoteON"
    /\ Len(serial_tx) = 2
    /\ global_running_status_tx = C_NOTE_ON + tx_call[2]

\* C2: every data byte a channel-voice send (ModWheel included) writes to the
\* transport is in 0..127, whatever the argument values.
C2_DataBytesMasked ==
    tx_call[1] \in ChannelVoiceOps \cup ModWheelOps =>
        \A i \in 1..Len(serial_tx) :
            i > Len(serial_tx) - DataCount(tx_call[1]) => serial_tx[i] \in 0..127

\* C4: a realtime send writes exactly its one byte, whatever the transmit
\* running status, and leaves the running status unchanged; a channel-voice
\* send whose status is the running status is elided after any realtime send.
C4_RealtimeStep ==
    tx_call'[1] \in RealtimeOps =>
        /\ serial_tx' = <<RealtimeByte(tx_call'[1])>>
        /\ global_running_status_tx' = global_running_status_tx

C4_ElidedAfterRealtime ==
    \A rt \in RealtimeOps, ch \in Channels :
        LET after == Encode(global_running_status_tx, <<rt>>).tx
        IN  global_running_status_tx = C_NOTE_ON + ch =>
                Encode(after, <<"NoteON", ch, 60, 127>>).out = <<60, 127>>

C4_RealtimeSend == [][C4_RealtimeStep]_vars /\ []C4_ElidedAfterRealtime

\* C4 witness: a timing clock sent while a note-on running status is held.
C4_Witness ==
    /\ tx_call = <<"TimingClock">>
    /\ serial_tx = <<RT_TIMING_CLOCK>>
    /\ global_running_status_tx = C_NOTE_ON

\* C6: PitchWheel with a signed v in -8192..8191 sends u = v + 8192 as two
\* data bytes in 0..127, u mod 128 first and u div 128 second; v = -8192 gives
\* (0x00, 0x00) and v = 0 gives (0x00, 0x40).
C6_SignedPitchWheel ==
    (tx_call[1] = "PitchWheel_i16" /\ tx_call[3] \in -8192..8191) =>
        LET u == tx_call[3] + 8192
            data == DataBytesOf("PitchWheel_i16", serial_tx)
        IN  /\ Len(serial_tx) \in {2, 3}
            /\ data = <<u % 128, u \div 128>>
            /\ data[1] \in 0..127 /\ data[2] \in 0..127
            /\ tx_call[3] = -8192 => data = <<0, 0>>
            /\ tx_call[3] = 0 => data = <<0, 64>>

\* C6 witness: the lowest pitch, sent as (0x00, 0x00).
C6_Witness ==
    /\ tx_call[1] = "PitchWheel_i16"
    /\ tx_call[3] = -8192
    /\ DataBytesOf("PitchWheel_i16", serial_tx) = <<0, 0>>

(***************************************************************************)
(* Properties of the decoder (SpecRx).  A step that takes the head off     *)
(* the receive FIFO is a ReceiveParser call that read that byte; a step    *)
(* from an empty FIFO to an empty FIFO is a ReceiveParser call that read   *)
(* nothing.                                                                *)
(***************************************************************************)
ByteRead == serial_rx # <<>> /\ serial_rx' = Tail(serial_rx)

NothingRead == serial_rx = <<>> /\ serial_rx' = <<>>

\* C7: in every reachable decoder state a byte in 0xF8..0xFF invokes the
\* realtime delegate with that byte in the same call and leaves the receive
\* running status, the pending-byte flag and the stored first data byte
\* unchanged; a realtime byte between the two data bytes of a message does not
\* change what the second data byte invokes.
C7_RealtimeStep ==
    (ByteRead /\ Head(serial_rx) >= 248) =>
        /\ delegate_calls' = << <<"realtime_handler_delegate", Head(serial_rx)>> >>
        /\ UNCHANGED <<global_running_status_rx, global_3rd_byte_flag, global_midi_c2>>

C7_SecondByteAfterRealtime ==
    global_3rd_byte_flag = 1 =>
        \A rt \in 248..255, d \in {0, 1, 64, 127} :
            Feed(RxState, <<rt, d>>)[2] = Feed(RxState, <<d>>)[1]

C7_RealtimeInterleave == [][C7_RealtimeStep]_vars /\ []C7_SecondByteAfterRealtime

\* C7 witness: a timing clock dispatched between the data bytes of a note-on.
C7_Witness ==
    /\ delegate_calls = << <<"realtime_handler_delegate", RT_TIMING_CLOCK>> >>
    /\ global_3rd_byte_flag = 1
    /\ global_running_status_rx = C_NOTE_ON
    /\ global_midi_c2 = 60

\* C8: a ReceiveParser call made when the transport has no byte invokes no
\* delegate and leaves every field of the object unchanged.
C8_NoByteNoEffect ==
    [][ NothingRead =>
          /\ delegate_calls' = <<>>
          /\ rx_read' = 0
          /\ UNCHANGED fields
      ]_vars

\* C8 witness: a poll with nothing to read while a note-on awaits its second
\* data byte.
C8_Witness ==
    /\ rx_read = 0
    /\ delegate_calls = <<>>
    /\ serial_rx = <<>>
    /\ global_3rd_byte_flag = 1
    /\ global_running_status_rx = C_NOTE_ON
    /\ global_midi_c2 = 60

\* C9: the first data byte under a note-on running status (0x90..0x9F) is
\* stored; when the second arrives, 0 invokes note-off(first, 0) and not
\* note-on, any other value invokes note-on(first, second).  The note-on
\* delegate is never invoked with velocity 0.
C9_FirstByteStep ==
    (ByteRead /\ Head(serial_rx) < 128 /\ global_3rd_byte_flag = 0
              /\ global_running_status_rx \in 144..159) =>
        /\ global_midi_c2' = Head(serial_rx)
        /\ global_3rd_byte_flag' = 1
        /\ delegate_calls' = <<>>

C9_SecondByteStep ==
    (ByteRead /\ Head(serial_rx) < 128 /\ global_3rd_byte_flag = 1
              /\ global_running_status_rx \in 144..159) =>
        delegate_calls' =
            IF Head(serial_rx) = 0
            THEN << <<"midi_note_off_delegate", global_midi_c2, 0>> >>
            ELSE << <<"midi_note_on_delegate", global_midi_c2, Head(serial_rx)>> >>

C9_NoZeroVelocityNoteOn ==
    \A i \in 1..Len(delegate_calls) :
        delegate_calls[i][1] = "midi_note_on_delegate" => delegate_calls[i][3] # 0

C9_ZeroVelocityIsNoteOff ==
    [][C9_FirstByteStep /\ C9_SecondByteStep]_vars /\ []C9_NoZeroVelocityNoteOn

\* C9 witness: a note-on with velocity 0 delivered as note-off(60, 0).
C9_Witness ==
    /\ delegate_calls = << <<"midi_note_off_delegate", 60, 0>> >>
    /\ global_running_status_rx = C_NOTE_ON
    /\ global_midi_c3 = 0

\* C10: for every channel nibble and data bytes d1, d2, the bytes
\* [0x80|ch, d1, d2] invoke note-off(d1, d2), [0xB0|ch, d1, d2] invoke
\* control-change(d1, d2) and [0xE0|ch, d1, d2] invoke pitch-wheel(d1, d2),
\* the arguments in the order received and whatever the channel nibble.
\* Step by step in every reachable state: the status byte is taken as the
\* running status with no byte pending, the first data byte is stored, the
\* second dispatches.  And as a whole, on a newly constructed decoder, for
\* every channel and the data values of DataSamples.
DelegateOfFamily(family) ==
    CASE family = C_NOTE_OFF       -> "midi_note_off_delegate"
      [] family = C_CONTROL_CHANGE -> "midi_control_change_delegate"
      [] family = C_PITCH_WHEEL    -> "midi_pitchwheel_delegate"

ThreeByteFamilies == {C_NOTE_OFF, C_CONTROL_CHANGE, C_PITCH_WHEEL}

DataSamples == {0, 1, 7, 60, 64, 127}

C10_StatusStep ==
    (ByteRead /\ \E f \in ThreeByteFamilies : Head(serial_rx) \in f..(f + 15)) =>
        /\ global_running_status_rx' = Head(serial_rx)
        /\ global_3rd_byte_flag' = 0
        /\ delegate_calls' = <<>>

C10_FirstByteStep ==
    (ByteRead /\ Head(serial_rx) < 128 /\ global_3rd_byte_flag = 0
              /\ \E f \in ThreeByteFamilies : global_running_status_rx \in f..(f + 15)) =>
        /\ global_midi_c2' = Head(serial_rx)
        /\ global_3rd_byte_flag' = 1
        /\ global_running_status_rx' = global_running_status_rx
        /\ delegate_calls' = <<>>

C10_SecondByteStep ==
    \A f \in ThreeByteFamilies :
        (ByteRead /\ Head(serial_rx) < 128 /\ global_3rd_byte_flag = 1
                  /\ global_running_status_rx \in f..(f + 15)) =>
            delegate_calls' = << <<DelegateOfFamily(f), global_midi_c2, Head(serial_rx)>> >>

C10_OnNewDecoder ==
    rx_read = -1 =>
        \A f \in ThreeByteFamilies, ch \in 0..15, d1 \in DataSamples, d2 \in DataSamples :
            Feed(RxState, <<f + ch, d1, d2>>) =
                << <<>>, <<>>, << <<DelegateOfFamily(f), d1, d2>> >> >>

C10_ThreeByteMessages ==
    /\ [][C10_StatusStep /\ C10_FirstByteStep /\ C10_SecondByteStep]_vars
    /\ []C10_OnNewDecoder

\* C10 witness: a pitch-wheel message on channel nibble 5 delivered as (0, 60).
C10_Witness ==
    /\ delegate_calls = << <<"midi_pitchwheel_delegate", 0, 60>> >>
    /\ global_running_status_rx = C_PITCH_WHEEL
    /\ global_midi_c2 = 0
    /\ global_midi_c3 = 60

(***************************************************************************)
(* Properties of a newly constructed encoder wired to a newly constructed  *)
(* decoder (SpecLoop).                                                     *)
(***************************************************************************)
\* C3: the transmit running status is initialized at construction to a value
\* that is no status byte, so the first channel-voice send after construction
\* writes the full status byte: NoteON(0,60,100) on a new object writes
\* [0x90,0x3C,0x64] and a following NoteON(0,62,90) writes [0x3E,0x5A].
\* Stated on the wire: what the first call and the two calls of the scenario
\* write.
C3_FreshRunningStatus ==
    /\ (Len(issued) = 1 /\ issued[1][1] \in ChannelVoiceOps) =>
           /\ Len(serial_tx) = DataCount(issued[1][1]) + 1
           /\ serial_tx[1] = StatusOf(issued[1])
    /\ issued = << <<"NoteON", 0, 60, 100>> >> => serial_tx = <<144, 60, 100>>
    /\ issued = << <<"NoteON", 0, 60, 100>>, <<"NoteON", 0, 62, 90>> >> =>
           serial_tx = <<62, 90>>

\* C5: the bytes NoteON(channel, note, velocity) writes on a new encoder, fed
\* one byte per ReceiveParser call to a new decoder, invoke exactly one
\* delegate: note-on(note, velocity) when velocity # 0, note-off(note, 0)
\* when velocity = 0.
C5_NoteOnRoundTrip ==
    (/\ Len(issued) = 1
     /\ issued[1][1] = "NoteON"
     /\ issued[1][2] \in 0..15 /\ issued[1][3] \in 0..127 /\ issued[1][4] \in 0..127
     /\ serial_rx = <<>>) =>
        heard = IF issued[1][4] # 0
                THEN << <<"midi_note_on_delegate", issued[1][3], issued[1][4]>> >>
                ELSE << <<"midi_note_off_delegate", issued[1][3], 0>> >>

(***************************************************************************)
(* Properties of the decoder against the line (SpecWire).  A step with     *)
(* ByteRead is a ReceiveParser call that read Head(serial_rx); wire is     *)
(* what the observer kept of the bytes read before it.                     *)
(***************************************************************************)
\* Status bytes of the families with a delegate: note-off, note-on,
\* control-change, pitch-wheel.
SurfacedStatus(s) == s \in 128..159 \/ s \in 176..191 \/ s \in 224..239

\* The delegates of those families.
SurfacedDelegates ==
    {"midi_note_on_delegate", "midi_note_off_delegate",
     "midi_control_change_delegate", "midi_pitchwheel_delegate"}

\* The invocation a complete message (status s, data d1 d2) of one of those
\* families calls for; a note-on with velocity 0 is a note-off.
Surfaced(s, d1, d2) ==
    LET family == BitAnd(s, 240)
    IN  IF family = C_NOTE_ON
        THEN IF d2 = 0 THEN <<"midi_note_off_delegate", d1, d2>>
                       ELSE <<"midi_note_on_delegate", d1, d2>>
        ELSE <<DelegateOfFamily(family), d1, d2>>

\* An odd number of data bytes was read since the status byte in force.
OddData(w) == w.n = 1 \/ w.n = 3

\* The data byte c is the second data byte of a message of a surfaced family.
Completes(w, c) == c < 128 /\ SurfacedStatus(w.status) /\ OddData(w)

\* The delegates a byte on the line calls for, by name.
DelegatesDue(w, c) ==
    IF c >= 248 THEN <<"realtime_handler_delegate">>
    ELSE IF Completes(w, c) THEN <<Surfaced(w.status, w.prev, c)[1]>>
    ELSE <<>>

\* C11: over any input byte stream the decoder invokes exactly one delegate
\* for each completed message of a surfaced kind (a realtime byte, or the
\* second data byte of a note-on, note-off, control-change or pitch-wheel
\* message), at most one per ReceiveParser call, and in the order of the
\* completing bytes on the line: the delegate is invoked in the very call
\* that reads the completing byte, calls read the line in order, and a call
\* that reads any other byte, or none, invokes nothing.
C11_DelegateInCompletingCall ==
    /\ ByteRead =>
           /\ Len(delegate_calls') = Len(DelegatesDue(wire, Head(serial_rx)))
           /\ \A i \in 1..Len(delegate_calls') :
                  delegate_calls'[i][1] = DelegatesDue(wire, Head(serial_rx))[i]
    /\ NothingRead => delegate_calls' = <<>>

C11_OneCallbackPerMessage ==
    [][C11_DelegateInCompletingCall]_vars /\ [](Len(delegate_calls) <= 1)

\* C11 witness: a second note-on under running status has just been
\* delivered, four data bytes after its status byte.
C11_Witness ==
    /\ rx_read = 1
    /\ wire.status = C_NOTE_ON + 5
    /\ wire.n = 4
    /\ delegate_calls = << <<"midi_note_on_delegate", 0, 60>> >>

\* C12: while the receive running status is in the program-change,
\* channel-aftertouch or polyphonic-aftertouch family, no data byte invokes a
\* delegate and the running status stays in its family; the bytes are counted
\* (a program-change or channel-aftertouch message is complete with one data
\* byte, a polyphonic-aftertouch message with two), so that a message with a
\* surfaced status byte that follows is delivered with its own two data bytes.
C12_DataStep ==
    (/\ ByteRead
     /\ Head(serial_rx) < 128
     /\ global_running_status_rx \in (160..175) \cup (192..223)) =>
        /\ delegate_calls' = <<>>
        /\ BitAnd(global_running_status_rx', 240) = BitAnd(global_running_status_rx, 240)
        /\ global_running_status_rx \in 192..223 =>
               /\ global_3rd_byte_flag' = 0
               /\ global_midi_c2' = Head(serial_rx)
        /\ global_running_status_rx \in 160..175 =>
               global_3rd_byte_flag' = IF OddData(wire) THEN 0 ELSE 1

C12_NextMessageIntact ==
    rx_read = -1 =>
        \A t \in {C_NOTE_OFF, C_NOTE_ON + 5, C_CONTROL_CHANGE, C_PITCH_WHEEL + 5} :
        \A d1, d2 \in DataSamples :
            /\ \A s \in {C_PROGRAM_CHANGE, C_CHANNEL_AFTERTOUCH + 5} :
               \A d \in DataSamples :
                   Feed(RxState, <<s, d, t, d1, d2>>) =
                       << <<>>, <<>>, <<>>, <<>>, <<Surfaced(t, d1, d2)>> >>
            /\ \A d, e \in {0, 60, 127} :
                   /\ Feed(RxState, <<C_POLYPHONIC_AFTERTOUCH, d, e, t, d1, d2>>) =
                          << <<>>, <<>>, <<>>, <<>>, <<>>, <<Surfaced(t, d1, d2)>> >>
                   /\ Feed(RxState, <<C_POLYPHONIC_AFTERTOUCH, d, e, d, t, d1, d2>>) =
                          << <<>>, <<>>, <<>>, <<>>, <<>>, <<>>, <<Surfaced(t, d1, d2)>> >>

C12_UnsurfacedCounted ==
    [][C12_DataStep]_vars /\ [](C12_NextMessageIntact)

\* C12 witness: a complete polyphonic-aftertouch message was read, both data
\* bytes counted and no delegate invoked.
C12_Witness ==
    /\ rx_read = 1
    /\ global_running_status_rx = C_POLYPHONIC_AFTERTOUCH
    /\ wire.n = 2
    /\ global_midi_c2 = 60
    /\ global_midi_c3 = wire.prev
    /\ global_3rd_byte_flag = 0
    /\ delegate_calls = <<>>

\* C13 as stated: whenever the receive running status is 0 (no status), a
\* data byte is discarded: no delegate is invoked and the running status, the
\* pending-byte flag and the stored first data byte are unchanged.
C13_DataDiscardedWithoutStatus ==
    [][ (/\ ByteRead
         /\ Head(serial_rx) < 128
         /\ global_running_status_rx = 0) =>
            /\ delegate_calls' = <<>>
            /\ UNCHANGED <<global_running_status_rx, global_3rd_byte_flag, global_midi_c2>>
      ]_vars

\* C13, amended: whenever the receive running status is 0 and the pending-byte
\* flag is not set, a data byte is discarded: no delegate is invoked and the
\* running status, the flag and both stored data bytes are unchanged.  With
\* the flag set (the first data byte after 0xF2 was read) the data byte
\* invokes no delegate and leaves the running status and the stored first
\* data byte unchanged, but clears the flag.
C13_DataDiscardedNoPending ==
    [][ (/\ ByteRead
         /\ Head(serial_rx) < 128
         /\ global_running_status_rx = 0) =>
            /\ delegate_calls' = <<>>
            /\ UNCHANGED <<global_running_status_rx, global_midi_c2>>
            /\ global_3rd_byte_flag # 1 =>
                   UNCHANGED <<global_3rd_byte_flag, global_midi_c3>>
            /\ global_3rd_byte_flag = 1 =>
                   /\ global_3rd_byte_flag' = 0
                   /\ global_midi_c3' = Head(serial_rx)
      ]_vars

\* C13 witness: the data byte 60 was read with no running status in force
\* (a system-exclusive status and two data bytes went before) and dropped.
C13_Witness ==
    /\ rx_read = 1
    /\ wire.status = 240
    /\ wire.n = 2
    /\ wire.prev = 60
    /\ global_running_status_rx = 0
    /\ global_3rd_byte_flag = 0
    /\ global_midi_c2 = 0
    /\ global_midi_c3 = 0
    /\ delegate_calls = <<>>

\* Status bytes of the messages with two data bytes: the channel-voice
\* families but program-change and channel-aftertouch, and song position.
TwoDataStatus(s) == s \in 128..191 \/ s \in 224..239 \/ s = 242

\* One data byte of a two-data-byte message is outstanding on the line:
\* under a channel-voice status (running status) an odd number of data bytes
\* was read since the status byte, under 0xF2 exactly one.
OneDataOutstanding(w) ==
    /\ TwoDataStatus(w.status)
    /\ IF w.status = 242 THEN w.n = 1 ELSE OddData(w)

\* C14: in every reachable decoder state the pending-byte flag is set if and
\* only if the bytes read since the most recent status byte below 0xF8 are
\* exactly one data byte of a two-data-byte message, realtime bytes and the
\* messages already completed under running status left aside.
C14_FlagIffOneDataPending ==
    /\ global_3rd_byte_flag \in {0, 1}
    /\ global_3rd_byte_flag = 1 <=> OneDataOutstanding(wire)

\* C14 witness: the third data byte after a control-change status byte was
\* read, a timing clock after it: the flag is set.
C14_Witness ==
    /\ rx_read = 1
    /\ delegate_calls = << <<"realtime_handler_delegate", RT_TIMING_CLOCK>> >>
    /\ wire.status = C_CONTROL_CHANGE
    /\ wire.n = 3
    /\ global_3rd_byte_flag = 1

\* C15: from any reachable decoder state a status byte in 0x80..0xF7 becomes
\* the receive running status, clears the pending-byte flag and invokes no
\* delegate; a message interrupted after its first data byte is abandoned, and
\* the next note, control-change or pitch-wheel delegate takes both arguments
\* from data bytes read after that status byte.
C15_StatusStep ==
    (ByteRead /\ Head(serial_rx) \in 128..247) =>
        /\ global_running_status_rx' = Head(serial_rx)
        /\ global_3rd_byte_flag' = 0
        /\ delegate_calls' = <<>>

C15_ArgumentsAfterStatus ==
    (/\ ByteRead
     /\ delegate_calls' # <<>>
     /\ delegate_calls'[1][1] \in SurfacedDelegates) =>
        /\ wire.n >= 1
        /\ wire'.n >= 2
        /\ delegate_calls'[1][2] = wire.prev
        /\ delegate_calls'[1][3] = wire'.prev

C15_InterruptedAbandoned ==
    global_3rd_byte_flag = 1 =>
        \A t \in {C_NOTE_OFF, C_NOTE_ON + 5, C_CONTROL_CHANGE, C_PITCH_WHEEL + 5} :
        \A d1, d2 \in {0, 64, 127} :
            Feed(RxState, <<t, d1, d2>>) = << <<>>, <<>>, <<Surfaced(t, d1, d2)>> >>

C15_StatusResynchronizes ==
    [][C15_StatusStep /\ C15_ArgumentsAfterStatus]_vars /\ [](C15_InterruptedAbandoned)

\* C15 witness: the status byte 0x95 was read after the first data byte 60 of
\* a message that was never completed.
C15_Witness ==
    /\ rx_read = 1
    /\ wire = [status |-> C_NOTE_ON + 5, n |-> 0, prev |-> -1]
    /\ global_running_status_rx = C_NOTE_ON + 5
    /\ global_midi_c2 = 60
    /\ global_midi_c3 = 0
    /\ global_3rd_byte_flag = 0
    /\ delegate_calls = <<>>

\* C16: receive running status.  Once a two-data-byte message of a surfaced
\* family was delivered, every further pair of data bytes read with no status
\* byte below 0xF8 in between is delivered as a message of the same family
\* with that pair as arguments (for the note-on family a pair with velocity 0
\* goes to the note-off delegate, as for a message with its status byte): the
\* first byte of the pair is stored and sets the flag, the second invokes the
\* delegate, and the running status stays in the family.
C16_PairStep ==
    (/\ ByteRead
     /\ Head(serial_rx) < 128
     /\ SurfacedStatus(wire.status)
     /\ wire.n >= 2) =>
        /\ BitAnd(global_running_status_rx', 240) = BitAnd(wire.status, 240)
        /\ ~OddData(wire) =>
               /\ delegate_calls' = <<>>
               /\ global_3rd_byte_flag' = 1
               /\ global_midi_c2' = Head(serial_rx)
        /\ OddData(wire) =>
               /\ delegate_calls' = <<Surfaced(wire.status, wire.prev, Head(serial_rx))>>
               /\ global_3rd_byte_flag' = 0

C16_ReceiveRunningStatus == [][C16_PairStep]_vars

\* C16 witness: a second pitch-wheel message was delivered from the fourth
\* data byte after the status byte 0xE5.
C16_Witness ==
    /\ rx_read = 1
    /\ wire = [status |-> C_PITCH_WHEEL + 5, n |-> 4, prev |-> 60]
    /\ global_running_status_rx = C_PITCH_WHEEL
    /\ delegate_calls = << <<"midi_pitchwheel_delegate", 0, 60>> >>

\* C17: system-common byte counting.  After the status byte 0xF2 the first
\* data byte clears the running status and sets the pending-byte flag, and the
\* second data byte clears the flag; after any other status byte in
\* 0xF0..0xF7 the first data byte clears the running status and leaves the
\* flag clear.  No data byte after such a status byte invokes a delegate, and
\* every later data byte is ignored until the next status byte below 0xF8.
C17_DataStep ==
    (/\ ByteRead
     /\ Head(serial_rx) < 128
     /\ wire.status \in 240..247) =>
        /\ delegate_calls' = <<>>
        /\ global_running_status_rx' = 0
        /\ (wire.status = 242 /\ wire.n = 0) =>
               /\ global_running_status_rx = 242
               /\ global_3rd_byte_flag' = 1
        /\ (wire.status = 242 /\ wire.n = 1) =>
               /\ global_3rd_byte_flag = 1
               /\ global_3rd_byte_flag' = 0
        /\ (wire.status # 242 /\ wire.n = 0) =>
               /\ global_running_status_rx = wire.status
               /\ global_3rd_byte_flag' = 0
        /\ (wire.n >= 2 \/ (wire.status # 242 /\ wire.n >= 1)) =>
               /\ global_running_status_rx = 0
               /\ global_3rd_byte_flag = 0
               /\ UNCHANGED <<global_3rd_byte_flag, global_midi_c2, global_midi_c3>>

C17_SystemCommonCounting == [][C17_DataStep]_vars

\* C17 witness: both data bytes of a song position message (0xF2, 60, 0)
\* were read: no running status, no pending byte, no delegate.
C17_Witness ==
    /\ rx_read = 1
    /\ wire = [status |-> 242, n |-> 2, prev |-> 0]
    /\ global_running_status_rx = 0
    /\ global_3rd_byte_flag = 0
    /\ global_midi_c2 = 60
    /\ global_midi_c3 = 0
    /\ delegate_calls = <<>>

(***************************************************************************)
(* Further properties of the encoder (SpecTx).                             *)
(***************************************************************************)
\* C18: ModWheel with a 14-bit value val (0..16383) on channel ch writes two
\* control-change messages in this order: controller 0x21 with val mod 128,
\* then controller 0x01 with val div 128; the first carries the status byte
\* 0xB0 | ch unless it is the transmit running status, the second never does.
C18_ModWheelLsbThenMsb ==
    [][ (/\ tx_call'[1] = "ModWheel_u16"
         /\ tx_call'[2] \in 0..15
         /\ tx_call'[3] \in 0..16383) =>
            LET st  == C_CONTROL_CHANGE + tx_call'[2]
                val == tx_call'[3]
                messages == <<33, val % 128, 1, val \div 128>>
            IN  /\ serial_tx' = (IF global_running_status_tx = st THEN <<>> ELSE <<st>>)
                                    \o messages
                /\ global_running_status_tx' = st
      ]_vars

\* C18 witness: ModWheel(1, 8192) wrote B1 21 00 01 40.
C18_Witness ==
    /\ tx_call = <<"ModWheel_u16", 1, 8192>>
    /\ serial_tx = <<177, 33, 0, 1, 64>>

\* C19 as stated: every encoder operation writes at most 3 bytes per call,
\* whatever the transmit running status.
C19_AtMostThreeBytes == Len(serial_tx) <= 3

\* C19, amended: every encoder operation but the 14-bit ModWheel writes at
\* most 3 bytes per call, whatever the transmit running status; the 14-bit
\* ModWheel writes two control-change messages, 4 bytes when the status byte
\* of the first is elided and 5 when it is not.
C19_AtMostThreeBytesButModWheel ==
    /\ tx_call[1] # "ModWheel_u16" => Len(serial_tx) <= 3
    /\ tx_call[1] = "ModWheel_u16" => Len(serial_tx) \in {4, 5}

\* C19 witness: ModWheel(0, 16383) wrote the five bytes B0 21 7F 01 7F.
C19_Witness ==
    /\ tx_call = <<"ModWheel_u16", 0, 16383>>
    /\ serial_tx = <<176, 33, 127, 1, 127>>

(***************************************************************************)
(* Further properties of the decoder against the line (SpecWire).          *)
(***************************************************************************)
\* C20: for every input byte stream, also one where a tune request (0xF6)
\* overwrites the stored first data byte with a status value, both arguments
\* of every note-on, note-off, control-change and pitch-wheel invocation are
\* data bytes (0..127): the second is the byte just read, the first is the
\* data byte read before it (realtime bytes aside) since the status byte in
\* force.  While a second data byte is pending the stored first data byte is
\* that data byte.
C20_ArgumentStep ==
    (/\ ByteRead
     /\ delegate_calls' # <<>>
     /\ delegate_calls'[1][1] \in SurfacedDelegates) =>
        /\ delegate_calls'[1][2] \in 0..127
        /\ delegate_calls'[1][3] \in 0..127
        /\ delegate_calls'[1][3] = Head(serial_rx)
        /\ wire.prev \in 0..127
        /\ delegate_calls'[1][2] = wire.prev

C20_StoredFirstByte ==
    /\ global_3rd_byte_flag = 1 => global_midi_c2 = wire.prev /\ wire.prev \in 0..127
    /\ global_midi_c2 = SYSTEM_TUNE_REQUEST => global_3rd_byte_flag = 0
    /\ rx_read = -1 =>
           Feed(RxState, <<C_NOTE_ON, 60, SYSTEM_TUNE_REQUEST, 100, C_NOTE_ON, 62, 90>>) =
               << <<>>, <<>>, <<>>, <<>>, <<>>, <<>>, << <<"midi_note_on_delegate", 62, 90>> >> >>

C20_ArgumentsAreDataBytes ==
    [][C20_ArgumentStep]_vars /\ [](C20_StoredFirstByte)

\* C20 witness: a control-change message was delivered with the two data
\* bytes 60 and 0 read after its status byte 0xB5.
C20_Witness ==
    /\ rx_read = 1
    /\ wire = [status |-> C_CONTROL_CHANGE + 5, n |-> 2, prev |-> 0]
    /\ global_midi_c2 = 60
    /\ global_midi_c3 = 0
    /\ delegate_calls = << <<"midi_control_change_delegate", 60, 0>> >>

(***************************************************************************)
(* Further properties of a newly constructed encoder wired to a newly      *)
(* constructed decoder (SpecLoop).                                         *)
(***************************************************************************)
\* The delegate invocations an encoder call stands for: a NoteON with
\* velocity 0 is a note-off, a ChannelAfterTouch is none, a realtime send is
\* the realtime delegate with its byte.
EventOf(call) ==
    CASE call[1] = "NoteON" ->
             IF call[4] = 0
             THEN << <<"midi_note_off_delegate", call[3], call[4]>> >>
             ELSE << <<"midi_note_on_delegate", call[3], call[4]>> >>
      [] call[1] = "NoteOFF" -> << <<"midi_note_off_delegate", call[3], call[4]>> >>
      [] call[1] = "ControlChange" ->
             << <<"midi_control_change_delegate", call[3], call[4]>> >>
      [] call[1] = "PitchWheel_u16" ->
             << <<"midi_pitchwheel_delegate", call[3] % 128, (call[3] \div 128) % 128>> >>
      [] call[1] = "ChannelAfterTouch" -> <<>>
      [] call[1] \in RealtimeOps ->
             << <<"realtime_handler_delegate", RealtimeByte(call[1])>> >>

RECURSIVE EventsOf(_)
EventsOf(calls) ==
    IF calls = <<>> THEN <<>> ELSE EventOf(Head(calls)) \o EventsOf(Tail(calls))

\* C21: for any finite sequence of encoder calls on a new encoder (channels
\* 0..15, data 0..127), the bytes written, fed one per ReceiveParser call to a
\* new decoder, invoke exactly the delegates the calls stand for, in order:
\* once every byte written was read, the invocations heard are the events of
\* the calls issued.
C21_EndToEndEquivalence ==
    serial_rx = <<>> => heard = EventsOf(issued)

====
